---- MODULE Spec2Model ----
(***************************************************************************)
(* A model of the packing engine of OpShipping2.py: the fit test, the      *)
(* space-splitting function best_fit, the driver pack_boxes with its       *)
(* helper insert_items_into_dimensions, and the selector handle_order.     *)
(*                                                                         *)
(* Python lists are modelled as sequences.  Python indexes from 0 and      *)
(* wraps negative indexes; the operator At keeps the source's indexes.     *)
(***************************************************************************)
EXTENDS Integers, Sequences, FiniteSets

VARIABLES
    \* ---- handle_order (lines 337-377) ----
    item_list,          \* parameter: the order's items, in the caller's order
    box_list,           \* parameter: the catalog, a list of (name, dimensions)
    i,                  \* the index of the loop of line 348
    best_packed_items,  \* line 344
    best_box,           \* line 345
    best_parsed,        \* line 346
    best_total_volume,  \* line 347
    runs,               \* per catalog entry visited: can_use_box, len(packed_items), total_volume
    hpc,                \* position in handle_order, or "direct" when pack_boxes is called directly
    \* ---- pack_boxes (lines 227-270) ----
    box_dimensions,     \* parameter: contents of the caller's box list object
    items_to_pack,      \* parameter: contents of the caller's item list object
    items_to_pack_copy, \* line 257
    remaining_dimensions, \* line 255: the queue of free blocks
    items_packed,       \* line 256: the box instances
    front_is_box,       \* remaining_dimensions[0] is the object box_dimensions (line 264)
    idx,                \* position of the list iterator of line 267
    pc,                 \* position in pack_boxes
    \* ---- insert_items_into_dimensions / best_fit ----
    left_over_dimensions, \* line 214: the result of the latest best_fit call
    best_fit_calls,     \* the (item_dims, box_dims) arguments of every best_fit call of the run
    \* ---- best_fit called on its own ----
    item_dims,          \* parameter
    box_dims,           \* parameter
    split               \* the locals of the call once it has run

vars == <<item_list, box_list, i, best_packed_items, best_box, best_parsed,
          best_total_volume, runs, hpc, box_dimensions, items_to_pack,
          items_to_pack_copy, remaining_dimensions, items_packed, front_is_box,
          idx, pc, left_over_dimensions, best_fit_calls, item_dims, box_dims,
          split>>

handle_vars == <<item_list, box_list, i, best_packed_items, best_box,
                 best_parsed, best_total_volume, runs, hpc>>

pack_vars == <<box_dimensions, items_to_pack, items_to_pack_copy,
               remaining_dimensions, items_packed, front_is_box, idx, pc,
               left_over_dimensions, best_fit_calls>>

split_vars == <<item_dims, box_dims, split>>

----------------------------------------------------------------------------
(* Bounds of the model. *)

\* longest item list handed to pack_boxes on its own
MaxItems == 2
\* longest order handed to handle_order
MaxOrder == 3
\* largest dimension of an item
MaxItemDim == 2
\* largest dimension of a box type
MaxBoxDim == 3
\* longest catalog
MaxCatalog == 2
\* largest dimension when best_fit is called on its own
MaxSplitDim == 5

\* Python's None, where the other values are strings
None == "None"
\* Python's None, where the other values are lists: a list x is held as <<x>>
NoneList == <<>>
Some(x) == <<x>>

----------------------------------------------------------------------------
(* Python list helpers. *)

\* d[k] for a Python index k in -3..2 (negative indexes wrap)
At(d, k) == d[((k + 3) % 3) + 1]

Min(S) == CHOOSE x \in S : \A y \in S : x <= y

\* a list left in the order it has
unsorted(s) == s

\* sorted(s) for a list of integers
RECURSIVE sorted(_)
sorted(s) ==
    IF s = <<>> THEN <<>>
    ELSE LET x == s[Len(s)]
             r == sorted(SubSeq(s, 1, Len(s) - 1))
             k == Cardinality({j \in 1..Len(r) : r[j] <= x})
         IN SubSeq(r, 1, k) \o <<x>> \o SubSeq(r, k + 1, Len(r))

\* the ascending triples over 1..n
Triples(n) == {t \in (1..n) \X (1..n) \X (1..n) : t[1] <= t[2] /\ t[2] <= t[3]}

----------------------------------------------------------------------------
(* Geometry primitives. *)

\* the test of lines 39-40 with > in place of >=
does_it_fit_strict(item, box) == \A k \in 1..3 : box[k] > item[k]

\* lines 24-40: both triples ascending, rank by rank
does_it_fit(item, box) == \A k \in 1..3 : box[k] >= item[k]

\* lines 43-55
_something_fits(items, box) ==
    \E k \in 1..Len(items) : does_it_fit(items[k].dimensions, box)

\* lines 91-102
volume(dimensions) == dimensions[1] * dimensions[2] * dimensions[3]

----------------------------------------------------------------------------
(* best_fit, lines 105-202. *)

\* side_1 = None, line 129
side_1_None == -1

\* the first loop, lines 133-151, without the assignment of line 145
PassA_no_shrink(item, box) ==
    LET hits == {k \in 0..2 : \/ At(box, k) >= At(item, 2) * 2
                              \/ At(box, k) = At(item, 2)}
    IN IF hits = {}
       THEN [side_1 |-> side_1_None, blocks |-> <<>>, box_dims |-> box]
       ELSE LET k == Min(hits)
            IN IF At(box, k) >= At(item, 2) * 2
               THEN [side_1 |-> k,
                     blocks |-> <<sorted(<<At(box, k) - At(item, 2),
                                           At(box, k - 1), At(box, k - 2)>>)>>,
                     box_dims |-> box]
               ELSE [side_1 |-> k, blocks |-> <<>>, box_dims |-> box]

\* the first loop, lines 133-151: the lowest axis that holds the item's longest
\* side twice (top layer emitted, axis shrunk) or exactly (nothing emitted)
PassA(item, box) ==
    LET hits == {k \in 0..2 : \/ At(box, k) >= At(item, 2) * 2
                              \/ At(box, k) = At(item, 2)}
    IN IF hits = {}
       THEN [side_1 |-> side_1_None, blocks |-> <<>>, box_dims |-> box]
       ELSE LET k == Min(hits)
            IN IF At(box, k) >= At(item, 2) * 2
               THEN [side_1 |-> k,
                     blocks |-> <<sorted(<<At(box, k) - At(item, 2),
                                           At(box, k - 1), At(box, k - 2)>>)>>,
                     box_dims |-> [box EXCEPT ![k + 1] = At(item, 2)]]
               ELSE [side_1 |-> k, blocks |-> <<>>, box_dims |-> box]

\* the second loop, lines 153-162, with block_1 built from the box's other sides
PassB_box_sides(item, a) ==
    IF a.side_1 # side_1_None THEN a
    ELSE LET k == Min({j \in 0..2 : At(a.box_dims, j) >= At(item, 2)})
         IN [side_1 |-> k,
             blocks |-> <<sorted(<<At(a.box_dims, k) - At(item, 2),
                                   At(a.box_dims, k - 1), At(a.box_dims, k - 2)>>)>>,
             box_dims |-> a.box_dims]

\* the second loop, lines 153-162: taken when the first chose no axis
PassB(item, a) ==
    IF a.side_1 # side_1_None THEN a
    ELSE LET k == Min({j \in 0..2 : At(a.box_dims, j) >= At(item, 2)})
         IN [side_1 |-> k,
             blocks |-> <<sorted(<<At(a.box_dims, k) - At(item, 2),
                                   At(item, 1), At(item, 0)>>)>>,
             box_dims |-> a.box_dims]

\* lines 79-88; the result holds Python indexes, which may be negative
_get_side_2_side_3(item, box, side_1) ==
    IF At(item, 1) > At(box, side_1 - 1)
    THEN <<side_1 - 2, side_1 - 1>>
    ELSE IF At(item, 1) > At(box, side_1 - 2)
         THEN <<side_1 - 1, side_1 - 2>>
         ELSE <<(side_1 + 1) % 3, (side_1 + 2) % 3>>

\* lines 193-198 without the test of line 197
keep_all_blocks(blocks) == blocks

\* lines 193-198: the blocks whose smallest dimension is not 0
drop_empty_blocks(blocks) ==
    SelectSeq(blocks, LAMBDA block : block[1] # 0)

\* lines 200-201: sorted(..., key=volume), a stable sort
RECURSIVE sorted_by_volume(_)
sorted_by_volume(s) ==
    IF s = <<>> THEN <<>>
    ELSE LET x == s[Len(s)]
             r == sorted_by_volume(SubSeq(s, 1, Len(s) - 1))
             k == Cardinality({j \in 1..Len(r) : volume(r[j]) <= volume(x)})
         IN SubSeq(r, 1, k) \o <<x>> \o SubSeq(r, k + 1, Len(r))

\* every local of best_fit at its return, lines 129-202
best_fit_locals(item, box0) ==
    LET b == PassB(item, PassA(item, box0))
        box == b.box_dims
        side_1 == b.side_1
        s23 == _get_side_2_side_3(item, box, side_1)
        side_2 == s23[1]
        side_3 == s23[2]
        block_2a == sorted(<<At(box, side_1), At(box, side_2),
                             At(box, side_3) - At(item, 0)>>)
        block_3a == sorted(<<At(box, side_1), At(box, side_2) - At(item, 1),
                             At(item, 0)>>)
        block_2b == sorted(<<At(box, side_1), At(box, side_2) - At(item, 1),
                             At(box, side_3)>>)
        block_3b == sorted(<<At(box, side_1), At(box, side_3) - At(item, 0),
                             At(item, 1)>>)
        blocks == IF volume(block_2a) < volume(block_2b)
                  THEN b.blocks \o <<block_2a, block_3a>>
                  ELSE b.blocks \o <<block_2b, block_3b>>
    IN [side_1 |-> side_1, side_2 |-> side_2, side_3 |-> side_3,
        box_dims |-> box, blocks |-> blocks,
        remaining_dimensions |-> sorted_by_volume(drop_empty_blocks(blocks))]

best_fit(item, box) == best_fit_locals(item, box).remaining_dimensions

----------------------------------------------------------------------------
(* best_fit called on its own, on an item that fits the block. *)

idle_handle ==
    /\ item_list = <<>> /\ box_list = <<>> /\ i = 0
    /\ best_packed_items = NoneList /\ best_box = None /\ best_parsed = NoneList
    /\ best_total_volume = 0 /\ runs = <<>>

idle_pack ==
    /\ box_dimensions = <<>> /\ items_to_pack = <<>>
    /\ items_to_pack_copy = <<>> /\ remaining_dimensions = <<>>
    /\ items_packed = <<>> /\ front_is_box = FALSE /\ idx = 0
    /\ left_over_dimensions = <<>> /\ best_fit_calls = <<>>

\* the locals of best_fit before it has run
no_split ==
    [side_1 |-> side_1_None, side_2 |-> side_1_None, side_3 |-> side_1_None,
     box_dims |-> <<>>, blocks |-> <<>>, remaining_dimensions |-> <<>>]

idle_split == item_dims = <<>> /\ box_dims = <<>> /\ split = no_split

\* nothing has been called yet
SplitInit ==
    /\ idle_handle /\ hpc = "split"
    /\ idle_pack /\ pc = "call"
    /\ idle_split

\* best_fit(item, box), lines 105-202, on any item that fits any block
BestFitCall ==
    /\ hpc = "split" /\ pc = "call"
    /\ \E item \in Triples(MaxSplitDim), box \in Triples(MaxSplitDim) :
          /\ does_it_fit(item, box)
          /\ item_dims' = item
          /\ box_dims' = box
          /\ split' = best_fit_locals(item, box)
    /\ pc' = "best_fit_returned"
    /\ UNCHANGED <<handle_vars, box_dimensions, items_to_pack,
                   items_to_pack_copy, remaining_dimensions, items_packed,
                   front_is_box, idx, left_over_dimensions, best_fit_calls>>

SplitNext == BestFitCall

SplitSpec == SplitInit /\ [][SplitNext]_vars

----------------------------------------------------------------------------
(* The inputs. *)

\* the identifiers of items, as lines 314-315 write them
ItemNumbers == {"Item1", "Item2"}

\* ItemTuple, line 10
Items == [item_number : ItemNumbers, dimensions : Triples(MaxItemDim)]

ItemLists(n) == UNION {[1..m -> Items] : m \in 0..n}

BoxNames == <<"A", "B", "C", "D">>

\* catalogs as main builds them (line 403): (name, sorted dimensions)
Catalogs ==
    UNION {{[k \in 1..n |-> [name |-> BoxNames[k], dimensions |-> d[k]]] :
               d \in [1..n -> Triples(MaxBoxDim)]} : n \in 0..MaxCatalog}

\* The list of box instances is recorded up to this length: a run that returns
\* opens at most one box instance per item, and a run that opens more opens
\* empty ones without end, which are not recorded.
MaxParcels == MaxOrder

----------------------------------------------------------------------------
(* insert_items_into_dimensions, lines 205-224. *)

\* the scan of lines 208-209 taking the last item that fits
last_fit(items, block) ==
    LET fits == {k \in 1..Len(items) : does_it_fit(items[k].dimensions, block)}
    IN IF fits = {} THEN 0 ELSE CHOOSE k \in fits : \A j \in fits : j <= k

\* the scan of lines 208-209: the position (from 1) of the first item that fits
\* the block, 0 when none does
first_fit(items, block) ==
    LET fits == {k \in 1..Len(items) : does_it_fit(items[k].dimensions, block)}
    IN IF fits = {} THEN 0 ELSE Min(fits)

\* a removal of every element equal to x
remove_all(s, x) == SelectSeq(s, LAMBDA y : y # x)

\* list.remove(x), line 212: the first element equal to x goes
remove(s, x) ==
    LET k == Min({j \in 1..Len(s) : s[j] = x})
    IN SubSeq(s, 1, k - 1) \o SubSeq(s, k + 1, Len(s))

\* the queue left as it is
keep_front(q) == q

\* remaining_dimensions.pop(0), line 223
pop_front(q) == Tail(q)

\* the caller's list being the list the items are removed from
aliased_items_after_remove(caller, copy_after) == copy_after

\* line 257: list(items_to_pack) is a new list object, so line 212 removes from it
\* and the caller's list keeps its contents
caller_items_after_remove(caller, copy_after) == caller

\* best_fit writing line 145 into the list it was given
box_argument_shrunk(item, box) == best_fit_locals(item, box).box_dims

\* line 132: box_dims = list(box_dims), so line 145 writes into the copy and the
\* list object given to best_fit keeps its contents
box_argument_after_best_fit(item, box) == box

insert_items_into_dimensions ==
    LET block == remaining_dimensions[1]
        k == first_fit(items_to_pack_copy, block)
    IN IF k = 0
       THEN /\ remaining_dimensions' = pop_front(remaining_dimensions)
            /\ front_is_box' = FALSE
            /\ UNCHANGED <<items_packed, items_to_pack_copy, items_to_pack,
                           box_dimensions, left_over_dimensions, best_fit_calls>>
       ELSE LET item == items_to_pack_copy[k]
                left == remove(items_to_pack_copy, item)
                left_over == best_fit(item.dimensions, block)
                pushed == SelectSeq(left_over,
                                    LAMBDA b : _something_fits(left, b))
            IN /\ items_packed' =
                     [items_packed EXCEPT ![Len(items_packed)] = Append(@, item)]
               /\ items_to_pack_copy' = left
               /\ items_to_pack' = caller_items_after_remove(items_to_pack, left)
               /\ best_fit_calls' = Append(best_fit_calls,
                     [item_dims |-> item.dimensions, box_dims |-> block])
               /\ left_over_dimensions' = left_over
               /\ box_dimensions' =
                     IF front_is_box
                     THEN box_argument_after_best_fit(item.dimensions, block)
                     ELSE box_dimensions
               /\ remaining_dimensions' =
                     pop_front(remaining_dimensions \o pushed)
               /\ front_is_box' = FALSE

----------------------------------------------------------------------------
(* pack_boxes, lines 227-270. *)

\* lines 255-257
pack_boxes_entry(box, items) ==
    /\ box_dimensions' = box
    /\ items_to_pack' = items
    /\ remaining_dimensions' = <<>>
    /\ items_packed' = <<>>
    /\ items_to_pack_copy' = items
    /\ front_is_box' = FALSE
    /\ idx' = 0
    /\ left_over_dimensions' = <<>>
    /\ best_fit_calls' = <<>>
    /\ pc' = "while"

\* lines 258-264 without line 265 once a box instance exists: the next box is
\* filled into the item list of the instance before it
NewParcel_same_instance ==
    /\ pc = "while"
    /\ Len(items_to_pack_copy) > 0
    /\ Len(remaining_dimensions) = 0
    /\ remaining_dimensions' = <<box_dimensions>>
    /\ front_is_box' = TRUE
    /\ items_packed' = IF Len(items_packed) = 0
                       THEN Append(items_packed, <<>>)
                       ELSE items_packed
    /\ idx' = 0
    /\ pc' = "for"
    /\ UNCHANGED <<handle_vars, split_vars, box_dimensions, items_to_pack,
                   items_to_pack_copy, left_over_dimensions, best_fit_calls>>

\* lines 258-265 and the start of the loop of line 267: no free block is left,
\* a new box instance is opened
NewParcel ==
    /\ pc = "while"
    /\ Len(items_to_pack_copy) > 0
    /\ Len(remaining_dimensions) = 0
    /\ remaining_dimensions' = <<box_dimensions>>
    /\ front_is_box' = TRUE
    /\ items_packed' = IF Len(items_packed) < MaxParcels
                       THEN Append(items_packed, <<>>)
                       ELSE items_packed
    /\ idx' = 0
    /\ pc' = "for"
    /\ UNCHANGED <<handle_vars, split_vars, box_dimensions, items_to_pack,
                   items_to_pack_copy, left_over_dimensions, best_fit_calls>>

\* lines 258-260 and the start of the loop of line 267: free blocks are left
EnterFor ==
    /\ pc = "while"
    /\ Len(items_to_pack_copy) > 0
    /\ Len(remaining_dimensions) > 0
    /\ idx' = 0
    /\ pc' = "for"
    /\ UNCHANGED <<handle_vars, split_vars, box_dimensions, items_to_pack,
                   items_to_pack_copy, remaining_dimensions, items_packed,
                   front_is_box, left_over_dimensions, best_fit_calls>>

\* lines 267-269: the iterator, at position idx of the list it walks, yields an
\* element, and insert_items_into_dimensions runs on the front of the queue
ForStep ==
    /\ pc = "for"
    /\ idx < Len(remaining_dimensions)
    /\ insert_items_into_dimensions
    /\ idx' = idx + 1
    /\ UNCHANGED <<handle_vars, split_vars, pc>>

\* line 267: the iterator is past the end of the list
ForEnd ==
    /\ pc = "for"
    /\ idx >= Len(remaining_dimensions)
    /\ pc' = "while"
    /\ UNCHANGED <<handle_vars, split_vars, box_dimensions, items_to_pack,
                   items_to_pack_copy, remaining_dimensions, items_packed,
                   front_is_box, idx, left_over_dimensions, best_fit_calls>>

\* lines 258 and 270
Return ==
    /\ pc = "while"
    /\ Len(items_to_pack_copy) = 0
    /\ pc' = "done"
    /\ UNCHANGED <<handle_vars, split_vars, box_dimensions, items_to_pack,
                   items_to_pack_copy, remaining_dimensions, items_packed,
                   front_is_box, idx, left_over_dimensions, best_fit_calls>>

\* nothing has been called yet
PackInit ==
    /\ idle_handle /\ hpc = "direct"
    /\ idle_split
    /\ idle_pack /\ pc = "call"

\* pack_boxes called on its own (as lines 310-321 and 323-335 do), with any
\* item list and any box, the items that do not fit the box included: lines
\* 255-257
PackCall ==
    /\ hpc = "direct" /\ pc = "call"
    /\ \E box \in Triples(MaxBoxDim), items \in ItemLists(MaxItems) :
          pack_boxes_entry(box, items)
    /\ UNCHANGED <<handle_vars, split_vars>>

\* the steps of a pack_boxes call that has started
PackStep == NewParcel \/ EnterFor \/ ForStep \/ ForEnd \/ Return

PackNext == PackCall \/ PackStep

PackSpec == PackInit /\ [][PackNext]_vars

\* A call that has started keeps running: pack_boxes is sequential code, and no
\* step of it waits for anything.  The last conjunct is WF_vars(ForStep) with
\* ENABLED <<ForStep>>_vars written out: ForStep moves idx whenever its first two
\* conjuncts hold.
FairPackSpec ==
    /\ PackSpec
    /\ WF_vars(NewParcel \/ EnterFor \/ ForEnd \/ Return)
    /\ \/ []<>~(pc = "for" /\ idx < Len(remaining_dimensions))
       \/ []<><<ForStep>>_vars

----------------------------------------------------------------------------
(* handle_order, lines 337-377. *)

\* line 338: sorted(item_list, key=longest dimension, reverse=True); Python's
\* sort is stable, also in reverse
RECURSIVE sorted_longest_first(_)
sorted_longest_first(s) ==
    IF s = <<>> THEN <<>>
    ELSE LET x == s[Len(s)]
             r == sorted_longest_first(SubSeq(s, 1, Len(s) - 1))
             k == Cardinality({j \in 1..Len(r) :
                                  r[j].dimensions[3] >= x.dimensions[3]})
         IN SubSeq(r, 1, k) \o <<x>> \o SubSeq(r, k + 1, Len(r))

\* lines 349-355: every item of the order fits the box type
can_use_box(items, box) ==
    \A k \in 1..Len(items) : does_it_fit(items[k].dimensions, box)

\* lines 363-367: the identifiers of the items, box instance by box instance
parse(packed_items) ==
    [j \in 1..Len(packed_items) |->
        [k \in 1..Len(packed_items[j]) |-> packed_items[j][k].item_number]]

\* the comparison of line 371 letting an equal total win
not_worse(total_volume, best) == total_volume <= best

\* the comparison of line 371
is_better(total_volume, best) == total_volume < best

\* nothing has been called yet
Init ==
    /\ idle_handle /\ hpc = "call"
    /\ idle_split
    /\ idle_pack /\ pc = "idle"

\* handle_order(item_list, box_list) on any order and any catalog: lines 338-347
HandleCall ==
    /\ hpc = "call"
    /\ \E items \in ItemLists(MaxOrder), boxes \in Catalogs :
          /\ item_list' = items
          /\ box_list' = boxes
          /\ items_to_pack' = sorted_longest_first(items)
    /\ best_packed_items' = NoneList
    /\ best_box' = None
    /\ best_parsed' = NoneList
    /\ best_total_volume' = 0
    /\ i' = 0
    /\ hpc' = "loop"
    /\ UNCHANGED <<runs, split_vars, box_dimensions, items_to_pack_copy,
                   remaining_dimensions, items_packed, front_is_box, idx, pc,
                   left_over_dimensions, best_fit_calls>>

\* lines 348-356: an item does not fit the box type, which is passed over
SkipBox ==
    /\ hpc = "loop"
    /\ i < Len(box_list)
    /\ ~can_use_box(item_list, box_list[i + 1].dimensions)
    /\ runs' = Append(runs, [can_use_box |-> FALSE, parcels |-> 0,
                             total_volume |-> 0])
    /\ i' = i + 1
    /\ UNCHANGED <<item_list, box_list, best_packed_items, best_box,
                   best_parsed, best_total_volume, hpc, pack_vars, split_vars>>

\* lines 348-357: the call of pack_boxes
CallPackBoxes ==
    /\ hpc = "loop"
    /\ i < Len(box_list)
    /\ can_use_box(item_list, box_list[i + 1].dimensions)
    /\ pack_boxes_entry(box_list[i + 1].dimensions, items_to_pack)
    /\ hpc' = "pack_boxes"
    /\ UNCHANGED <<item_list, box_list, i, best_packed_items, best_box,
                   best_parsed, best_total_volume, runs, split_vars>>

\* lines 357-375: pack_boxes has returned
AfterPackBoxes ==
    /\ hpc = "pack_boxes"
    /\ pc = "done"
    /\ LET packed_items == items_packed
           total_volume == Len(packed_items) * volume(box_list[i + 1].dimensions)
       IN /\ runs' = Append(runs, [can_use_box |-> TRUE,
                                   parcels |-> Len(packed_items),
                                   total_volume |-> total_volume])
          /\ IF \/ best_packed_items = NoneList
                \/ is_better(total_volume, best_total_volume)
             THEN /\ best_packed_items' = Some(packed_items)
                  /\ best_box' = box_list[i + 1].name
                  /\ best_parsed' = Some(parse(packed_items))
                  /\ best_total_volume' = total_volume
             ELSE UNCHANGED <<best_packed_items, best_box, best_parsed,
                              best_total_volume>>
    /\ i' = i + 1
    /\ hpc' = "loop"
    /\ pc' = "idle"
    /\ UNCHANGED <<item_list, box_list, split_vars, box_dimensions,
                   items_to_pack, items_to_pack_copy, remaining_dimensions,
                   items_packed, front_is_box, idx, left_over_dimensions,
                   best_fit_calls>>

\* line 377
HandleReturn ==
    /\ hpc = "loop"
    /\ i = Len(box_list)
    /\ hpc' = "returned"
    /\ UNCHANGED <<item_list, box_list, i, best_packed_items, best_box,
                   best_parsed, best_total_volume, runs, pack_vars, split_vars>>

Next ==
    \/ HandleCall
    \/ SkipBox \/ CallPackBoxes \/ AfterPackBoxes \/ HandleReturn
    \/ NewParcel \/ EnterFor \/ ForStep \/ ForEnd \/ Return

Spec == Init /\ [][Next]_vars

----------------------------------------------------------------------------
(* Properties of best_fit, checked under SplitSpec. *)

RECURSIVE sum_of_volumes(_)
sum_of_volumes(blocks) ==
    IF blocks = <<>> THEN 0
    ELSE volume(Head(blocks)) + sum_of_volumes(Tail(blocks))

\* C2: when the item fits the block, the volume of the item plus the volumes of
\* all the blocks best_fit returns is at most the volume of the block.
C2_VolumeBound ==
    pc = "best_fit_returned" =>
        volume(item_dims) + sum_of_volumes(split.remaining_dimensions)
            <= volume(box_dims)

\* a call that took the second loop and returned three blocks
C2_Witness ==
    /\ pc = "best_fit_returned"
    /\ \A k \in 1..3 : box_dims[k] # item_dims[3] /\ box_dims[k] < 2 * item_dims[3]
    /\ Len(split.remaining_dimensions) = 3

\* C3: when the item fits the block, best_fit returns at most 3 blocks, each with
\* three strictly positive dimensions in ascending order, in order of
\* non-decreasing volume.
C3_BlocksWellFormed ==
    pc = "best_fit_returned" =>
        LET r == split.remaining_dimensions
        IN /\ Len(r) <= 3
           /\ \A k \in 1..Len(r) :
                 /\ r[k][1] > 0
                 /\ r[k][1] <= r[k][2]
                 /\ r[k][2] <= r[k][3]
           /\ \A k \in 1..(Len(r) - 1) : volume(r[k]) <= volume(r[k + 1])

\* a call in which a block with a zero dimension was computed, on a forced
\* rotation (side_2 is not the axis after side_1)
C3_Witness ==
    /\ pc = "best_fit_returned"
    /\ \E k \in 1..Len(split.blocks) : split.blocks[k][1] = 0
    /\ split.side_2 # (split.side_1 + 1) % 3
    /\ Len(split.remaining_dimensions) >= 1

\* the block axes (Python indexes) at least twice the item's longest dimension
TwiceAxes == {k \in 0..2 : box_dims[k + 1] >= 2 * item_dims[3]}

\* what the first loop does on axis k when it stacks two layers there
StacksOn(k) ==
    /\ split.side_1 = k
    /\ Len(split.blocks) = 3
    /\ split.blocks[1] = sorted(<<box_dims[k + 1] - item_dims[3],
                                  box_dims[((k + 2) % 3) + 1],
                                  box_dims[((k + 1) % 3) + 1]>>)
    /\ \E j \in 1..Len(split.remaining_dimensions) :
          split.remaining_dimensions[j] = split.blocks[1]
    /\ split.box_dims = [box_dims EXCEPT ![k + 1] = item_dims[3]]

\* C9 as stated: whenever some block axis is at least twice the item's longest
\* dimension, side_1 is the lowest such axis, the top-layer block is emitted and
\* that axis is shrunk to the item's longest dimension.
C9_AsStated ==
    (pc = "best_fit_returned" /\ TwiceAxes # {}) => StacksOn(Min(TwiceAxes))

\* C9, amended: the same, provided no axis of lower index than the lowest such
\* axis has exactly the item's longest dimension as its length.
C9_PassA ==
    (/\ pc = "best_fit_returned"
     /\ TwiceAxes # {}
     /\ \A k \in 0..2 : k < Min(TwiceAxes) => box_dims[k + 1] # item_dims[3])
        => StacksOn(Min(TwiceAxes))

\* a call that stacks two layers on an axis other than the first
C9_Witness ==
    /\ pc = "best_fit_returned"
    /\ TwiceAxes # {}
    /\ Min(TwiceAxes) > 0
    /\ \A k \in 0..2 : k < Min(TwiceAxes) => box_dims[k + 1] # item_dims[3]
    /\ split.side_1 = Min(TwiceAxes)

----------------------------------------------------------------------------
(* Properties of pack_boxes, checked under PackSpec and FairPackSpec. *)

\* every item of the caller's list fits the box, rank by rank
EveryItemFits ==
    \A k \in 1..Len(items_to_pack) : \A m \in 1..3 :
        items_to_pack[k].dimensions[m] <= box_dimensions[m]

\* the number of places of the list s that hold x
CountIn(s, x) == Cardinality({k \in 1..Len(s) : s[k] = x})

\* the number of places of the box instances that hold x
CountPacked(x) ==
    Cardinality({jk \in (1..Len(items_packed)) \X (1..Len(items_to_pack)) :
                    /\ jk[2] <= Len(items_packed[jk[1]])
                    /\ items_packed[jk[1]][jk[2]] = x})

\* C1: when every item fits the box and pack_boxes has returned, each item
\* occurs in the box instances as many times as in the input list: none is
\* lost, none is duplicated.
C1_ItemsConserved ==
    (pc = "done" /\ EveryItemFits) =>
        \A x \in Items : CountPacked(x) = CountIn(items_to_pack, x)

\* a returned run over a full list that holds one item twice and took more
\* than one box instance
C1_Witness ==
    /\ hpc = "direct" /\ pc = "done"
    /\ Len(items_to_pack) = MaxItems
    /\ \E x \in Items : CountIn(items_to_pack, x) >= 2
    /\ Len(items_packed) >= 2

\* C5 as stated: for any item list and any box, a call of pack_boxes returns.
C5_AsStated == (pc = "while") ~> (pc = "done")

\* C5, amended: for any item list in which every item fits the box,
\* pack_boxes returns.
C5_Terminates == (pc = "while" /\ EveryItemFits) ~> (pc = "done")

\* a returned run over a full list that went through the loop of line 258
\* more than once for one box instance
C5_Witness ==
    /\ hpc = "direct" /\ pc = "done"
    /\ Len(items_to_pack) = MaxItems
    /\ Len(items_packed) = 1
    /\ Len(best_fit_calls) = MaxItems

\* a step of insert_items_into_dimensions that places an item
Places == Len(items_to_pack_copy') < Len(items_to_pack_copy)

\* C6 as stated: in every step that places an item the queue of free blocks is
\* no longer after the step than before.
C6_AsStated ==
    [][Places => Len(remaining_dimensions') <= Len(remaining_dimensions)]_vars

\* C6, amended: in every step that places an item the queue of free blocks
\* grows by at most two (the front block goes, at most three are pushed), and
\* in every step that places none it shrinks by one.
C6_QueueGrowth ==
    [][/\ Places =>
            Len(remaining_dimensions') <= Len(remaining_dimensions) + 2
       /\ (pc = "for" /\ pc' = "for" /\ ~Places) =>
            Len(remaining_dimensions') = Len(remaining_dimensions) - 1]_vars

\* the first placement of a run has just pushed three blocks
C6_Witness ==
    /\ hpc = "direct" /\ pc = "for"
    /\ idx = 1
    /\ Len(best_fit_calls) = 1
    /\ Len(remaining_dimensions) = 3

\* at least one item, and every item has the dimensions of the box
ExactFitItems ==
    /\ Len(items_to_pack) >= 1
    /\ \A k \in 1..Len(items_to_pack) :
          items_to_pack[k].dimensions = box_dimensions

\* C7: when all k >= 1 items have the dimensions of the box, every placement
\* leaves no free block, and pack_boxes returns k box instances of one item.
C7_ExactFit ==
    ExactFitItems =>
        /\ left_over_dimensions = <<>>
        /\ remaining_dimensions \in {<<>>, <<box_dimensions>>}
        /\ pc = "done" =>
              /\ Len(items_packed) = Len(items_to_pack)
              /\ \A j \in 1..Len(items_packed) : Len(items_packed[j]) = 1

\* a returned run over several items, all with the dimensions of the box
C7_Witness ==
    /\ hpc = "direct" /\ pc = "done"
    /\ ExactFitItems
    /\ Len(items_to_pack) >= 2
    /\ Len(best_fit_calls) = Len(items_to_pack)

\* the list s without its place k
WithoutPlace(s, k) == SubSeq(s, 1, k - 1) \o SubSeq(s, k + 1, Len(s))

\* the places of the pending items that fit the front block, rank by rank
FitsFront ==
    {k \in 1..Len(items_to_pack_copy) : \A m \in 1..3 :
        items_to_pack_copy[k].dimensions[m] <= remaining_dimensions[1][m]}

\* C10: every step on the front block places the earliest pending item that
\* fits it, in the last box instance, removes it from the pending list and calls
\* best_fit on that item and that block; when no pending item fits, nothing is
\* placed, best_fit is not called and nothing is pushed; either way the front
\* block goes.  best_fit is never called on an item that does not fit the block.
C10_FirstFit ==
    [][(pc = "for" /\ idx < Len(remaining_dimensions)) =>
         /\ SubSeq(remaining_dimensions', 1, Len(remaining_dimensions) - 1)
               = Tail(remaining_dimensions)
         /\ IF FitsFront = {}
            THEN /\ items_packed' = items_packed
                 /\ items_to_pack_copy' = items_to_pack_copy
                 /\ best_fit_calls' = best_fit_calls
                 /\ remaining_dimensions' = Tail(remaining_dimensions)
            ELSE LET k == Min(FitsFront)
                 IN /\ items_packed' =
                          [items_packed EXCEPT ![Len(items_packed)] =
                              Append(@, items_to_pack_copy[k])]
                    /\ items_to_pack_copy' = WithoutPlace(items_to_pack_copy, k)
                    /\ best_fit_calls' = Append(best_fit_calls,
                          [item_dims |-> items_to_pack_copy[k].dimensions,
                           box_dims |-> remaining_dimensions[1]])
         /\ \A c \in 1..Len(best_fit_calls') : \A m \in 1..3 :
               best_fit_calls'[c].item_dims[m] <= best_fit_calls'[c].box_dims[m]]_vars

\* the first item of the list does not fit the front block and stays pending,
\* and the step has placed the item after it
C10_Witness ==
    /\ hpc = "direct"
    /\ Len(items_to_pack) = MaxItems
    /\ Len(best_fit_calls) = 1
    /\ items_to_pack_copy = <<items_to_pack[1]>>
    /\ items_packed[Len(items_packed)] = <<items_to_pack[2]>>
    /\ \E m \in 1..3 : items_to_pack[1].dimensions[m]
                          > best_fit_calls[1].box_dims[m]

\* the sum of the volumes of the items of one box instance
RECURSIVE volume_of_items(_)
volume_of_items(items) ==
    IF items = <<>> THEN 0
    ELSE volume(Head(items).dimensions) + volume_of_items(Tail(items))

\* the items of the last box instance; none before the first one is opened
current_parcel ==
    IF items_packed = <<>> THEN <<>> ELSE items_packed[Len(items_packed)]

\* C11: in every state of a packing run the volumes of the items placed in the
\* last box instance plus the volumes of all free blocks in the queue are at
\* most the volume of the box; and the items of every box instance, in the
\* returned result too, have a total volume of at most the volume of the box.
C11_Capacity ==
    pc \in {"while", "for", "done"} =>
        /\ volume_of_items(current_parcel) + sum_of_volumes(remaining_dimensions)
              <= volume(box_dimensions)
        /\ \A j \in 1..Len(items_packed) :
              volume_of_items(items_packed[j]) <= volume(box_dimensions)

\* the last box instance holds an item, free blocks are queued for the item
\* still pending, and blocks no pending item fits have been dropped
C11_Witness ==
    /\ hpc = "direct" /\ pc = "for"
    /\ Len(items_packed) >= 1
    /\ Len(current_parcel) = 1
    /\ Len(items_to_pack_copy) = 1
    /\ Len(remaining_dimensions) >= 1
    /\ Len(left_over_dimensions) > Len(remaining_dimensions)
    /\ volume_of_items(current_parcel) + sum_of_volumes(remaining_dimensions)
          < volume(box_dimensions)

----------------------------------------------------------------------------
(* Properties of handle_order, checked under Spec. *)

\* the catalog entries (from 1) whose dimensions dominate every item of the order
Feasible ==
    {k \in 1..Len(box_list) :
        \A j \in 1..Len(item_list) : \A m \in 1..3 :
            item_list[j].dimensions[m] <= box_list[k].dimensions[m]}

\* (number of box instances the driver used) x (volume of the box type)
Consumed(k) ==
    runs[k].parcels * box_list[k].dimensions[1] * box_list[k].dimensions[2]
                    * box_list[k].dimensions[3]

\* C4: handle_order runs the driver on exactly the feasible box types and
\* returns the feasible box type of least consumed volume, the earliest in the
\* catalog among equal ones; it returns None as the box type exactly when no
\* catalog entry is feasible.
C4_BestBox ==
    hpc = "returned" =>
        /\ Len(runs) = Len(box_list)
        /\ \A k \in 1..Len(box_list) : runs[k].can_use_box <=> k \in Feasible
        /\ (best_box = None) <=> (Feasible = {})
        /\ Feasible # {} =>
              \E k \in Feasible :
                 /\ \A j \in Feasible : Consumed(k) <= Consumed(j)
                 /\ \A j \in Feasible : j < k => Consumed(k) < Consumed(j)
                 /\ best_box = box_list[k].name
                 /\ best_total_volume = Consumed(k)
                 /\ Len(best_packed_items[1]) = runs[k].parcels

\* two feasible box types of different dimensions consume the same volume, the
\* earlier one in several box instances
C4_Witness ==
    /\ hpc = "returned"
    /\ Len(item_list) >= 2
    /\ \E j, k \in Feasible :
          /\ j < k
          /\ box_list[j].dimensions # box_list[k].dimensions
          /\ Consumed(j) = Consumed(k)
          /\ runs[j].parcels >= 2

\* C8: pack_boxes leaves the caller's item list and box dimensions as they were:
\* throughout handle_order the list handed to every run is the order sorted once,
\* every run starts from all of it, and the box of the run keeps its dimensions.
C8_InputsKept ==
    /\ hpc \in {"loop", "pack_boxes", "returned"} =>
          items_to_pack = sorted_longest_first(item_list)
    /\ hpc = "pack_boxes" =>
          /\ box_dimensions = box_list[i + 1].dimensions
          /\ (pc = "while" /\ items_packed = <<>>) =>
                items_to_pack_copy = sorted_longest_first(item_list)

\* the second run of an order has returned, after a first run whose first
\* placement shrank an axis of the box in best_fit
C8_Witness ==
    /\ hpc = "pack_boxes" /\ pc = "done"
    /\ i = 1
    /\ runs[1].can_use_box
    /\ Len(item_list) >= 2
    /\ Len(best_fit_calls) >= 2
    /\ best_fit_calls[1].box_dims[1] >= 2 * best_fit_calls[1].item_dims[3]

====
